---- MODULE Spec2Model ----
(***************************************************************************)
(* A model of JiakAIBot: the access-request state machine, the per-user    *)
(* pending-meal workflow (portion changes, nutrient nudges, confirm,       *)
(* cancel) and the incremental daily-summary ledger kept in the document   *)
(* store (add on save, subtract on delete, diff on edit).                  *)
(*                                                                         *)
(* Every handler is one atomic action: the bot runs one asyncio loop, the  *)
(* store client is called synchronously and updates are handled in order.  *)
(* Nutrient amounts are fixed-point integers (fortieths of a unit), so     *)
(* that the float products by 0.5, 1.0, 2.0 and 15.0 the model draws are   *)
(* exact.                                                                  *)
(***************************************************************************)
EXTENDS Integers, Sequences, FiniteSets, TLC

\* ------------------------------------------------------------------ bounds

\* Calendar days the clock runs through (dates are 1..MaxDay).
MaxDay == 2
\* Meal inputs analysed over a run, hence the meal documents ever stored.
MaxMeals == 2
\* Portion changes and nudges applied over a run.
MaxAdjust == 2
\* Calls of update_meal over a run.
MaxEdits == 2

\* ------------------------------------------------------------- identities

\* AUTHORIZED_TELEGRAM_IDS: the ids of the environment allow-list.
EnvIds == {"a1", "a2"}
Users == EnvIds \cup {"u1"}
\* The senders the access workflow draws from: one listed, one unlisted id.
AccessSenders == {"a1", "u1"}
\* The senders the meal workflow draws from.
MealSenders == {"a1", "a2"}

Days == 1..MaxDay
MealIds == 1..MaxMeals

NoDoc == [exists |-> FALSE]
None == "none"

\* The pending-meal ids "t_<hash(text) % 100000>" the drawn texts hash to.
Keys == {"t_1", "t_2"}

VARIABLES
    today,                  \* the date datetime.now() falls on
    authorized_users,       \* AccessControl.authorized_users
    access_requests,        \* collection access_requests, by user id
    users,                  \* collection users (the profile documents)
    meals,                  \* users/<id>/meals, by meal id
    summaries,              \* users/<id>/summaries, by date
    pending_meals,          \* context.user_data['pending_meals'], per user
    custom_portion_meal_id, \* context.user_data['custom_portion_meal_id']
    issued,                 \* auto-ids the store has given out, per user
    count,                  \* how much of MaxMeals, MaxAdjust, MaxEdits is used
    last,                   \* the update handled last and what it answered
    inflight                \* save_meal calls under way at the store, per worker

vars == <<today, authorized_users, access_requests, users, meals, summaries,
          pending_meals, custom_portion_meal_id, issued, count, last, inflight>>

accessVars == <<access_requests, users>>
storeVars == <<meals, summaries, issued>>
chatVars == <<pending_meals, custom_portion_meal_id>>
mealVars == <<storeVars, chatVars, count>>

\* ------------------------------------------------------------ access store

Status(u) == IF access_requests[u].exists THEN access_requests[u].status ELSE None

\* AccessControl._load_from_env: the allow-list read at construction.
LoadFromEnv == EnvIds

\* AccessControl.is_authorized_sync with a store configured: membership in the
\* set loaded at construction, which no handler refreshes.
IsAuthorizedSync(u) == u \in authorized_users

\* The gate reading the stored status instead of the set loaded at start.
CheckUserAccess_StoredStatus(u) ==
    access_requests[u].exists /\ access_requests[u].status = "approved"

\* check_user_access / check_message_access: the gate of every handler.
CheckUserAccess(u) == IsAuthorizedSync(u)

\* is_admin: membership in AUTHORIZED_TELEGRAM_IDS, read on every call.
IsAdmin(u) == u \in EnvIds

\* is_authorized taking its branch for no store: the environment allow-list.
IsAuthorized_EnvFallback(u) == u \in LoadFromEnv

\* AccessControl.is_authorized: the stored status, read on every call.
IsAuthorized(u) == access_requests[u].exists /\ access_requests[u].status = "approved"

\* AccessControl.is_authorized when the read of the record may raise: the
\* except branch returns False.
IsAuthorizedRead(u, read) == IF read THEN IsAuthorized(u) ELSE FALSE

\* FirebaseService.get_access_request / AccessControl._has_existing_request.
HasExistingRequest(u) == access_requests[u].exists

\* FirebaseService.save_access_request: refuses pending and approved, else
\* set(..., merge=True) of status and requested_at over what is stored.
SaveAccessRequestOk(u) ==
    ~(access_requests[u].exists /\ access_requests[u].status \in {"pending", "approved"})

SavedAccessRequest(u) ==
    IF access_requests[u].exists
    THEN [access_requests[u] EXCEPT !.status = "pending", !.requested_at = today]
    ELSE [exists |-> TRUE, status |-> "pending", requested_at |-> today,
          approved_at |-> 0, approved_by |-> None, denied_at |-> 0,
          revoked_at |-> 0, revoked_by |-> None, reinstate_requested_at |-> 0]

\* request_access without its existing-request block: only the store's own
\* refusal of pending and approved is left.
RequestAccessAccepts_NoExistingCheck(u) ==
    /\ ~IsAuthorized(u)
    /\ SaveAccessRequestOk(u)

\* request_access letting a revoked user re-request as a denied one may.
RequestAccessAccepts_RevokedReRequests(u) ==
    /\ ~IsAuthorized(u)
    /\ (HasExistingRequest(u) => access_requests[u].status \in {"denied", "revoked"})
    /\ SaveAccessRequestOk(u)

\* request_access refusing every stored record, a denied one included.
RequestAccessAccepts_DeniedRefused(u) ==
    /\ ~IsAuthorized(u)
    /\ ~HasExistingRequest(u)
    /\ SaveAccessRequestOk(u)

\* AccessControl.request_access: TRUE iff a request is saved.
RequestAccessAccepts(u) ==
    /\ ~IsAuthorized(u)
    /\ (HasExistingRequest(u) => access_requests[u].status = "denied")
    /\ SaveAccessRequestOk(u)

\* The record after AccessControl.request_access.
RequestAccess(u) ==
    IF RequestAccessAccepts(u) THEN SavedAccessRequest(u) ELSE access_requests[u]

\* The record of the update handled last: who sent what, whether the gate let
\* it through, what was replied, and for meal operations the nutrient, the
\* number (multiplier, delta or meal id), the value read before the change and
\* the sender's summaries as they were read.
NoSnap == [d \in Days |-> NoDoc]

Answer(op, actor, target, allowed, reply) ==
    [op |-> op, actor |-> actor, target |-> target, allowed |-> allowed,
     reply |-> reply, field |-> None, num |-> 0, old |-> 0, snap |-> NoSnap]

AnswerOn(op, actor, target, reply, field, num, old) ==
    [Answer(op, actor, target, TRUE, reply) EXCEPT !.field = field, !.num = num,
                                                   !.old = old]

Denied(op, actor, target) == Answer(op, actor, target, FALSE, "access_denied")

\* /request_access and the request_access callback (middleware
\* handle_access_request): the cached check first, then request_access.
RequestAccessVia(op, u) ==
    /\ IF CheckUserAccess(u)
       THEN /\ access_requests' = access_requests
            /\ last' = Answer(op, u, u, TRUE, "already_have_access")
       ELSE /\ access_requests' = [access_requests EXCEPT ![u] = RequestAccess(u)]
            /\ last' = Answer(op, u, u, FALSE,
                              IF RequestAccessAccepts(u) THEN "request_submitted"
                              ELSE "request_already_exists")
    /\ UNCHANGED <<today, authorized_users, inflight, users, mealVars>>

RequestAccessCommand(u) == RequestAccessVia("request_access_command", u)

RequestAccessCallback(u) == RequestAccessVia("request_access", u)

\* _handle_request_reinstate moving any stored record, whatever its status.
ReinstateAccepts_AnyRecord(u) == access_requests[u].exists

\* JiakAI._handle_request_reinstate: only a revoked record is moved.
ReinstateAccepts(u) ==
    access_requests[u].exists /\ access_requests[u].status = "revoked"

HandleRequestReinstate(u) ==
    /\ IF ReinstateAccepts(u)
       THEN /\ access_requests' = [access_requests EXCEPT ![u] =
                    [@ EXCEPT !.status = "reinstate_request",
                              !.reinstate_requested_at = today]]
            /\ last' = Answer("request_reinstate", u, u, FALSE, "reinstate_submitted")
       ELSE /\ access_requests' = access_requests
            /\ last' = Answer("request_reinstate", u, u, FALSE, "no_revoked_record")
    /\ UNCHANGED <<today, authorized_users, inflight, users, mealVars>>

\* ------------------------------------------------------ gated commands

\* FirebaseService.create_user_if_not_exists.
CreateUserIfNotExists(u) ==
    IF users[u].exists
    THEN [users[u] EXCEPT !.last_active = today]
    ELSE [exists |-> TRUE, created_at |-> today, last_active |-> today]

\* /start behind @require_access: the gate, then the profile upsert.
StartCommand(u) ==
    /\ IF CheckUserAccess(u)
       THEN /\ users' = [users EXCEPT ![u] = CreateUserIfNotExists(u)]
            /\ last' = Answer("start", u, u, TRUE, "welcome")
       ELSE /\ users' = users
            /\ last' = Answer("start", u, u, FALSE, "access_denied")
    /\ UNCHANGED <<today, authorized_users, inflight, access_requests, mealVars>>

\* /help, /summary and /history behind @require_access: they only read.
ReadCommands == {"help", "summary", "history"}

ReadCommand(u, cmd) ==
    /\ last' = Answer(cmd, u, u, CheckUserAccess(u),
                      IF CheckUserAccess(u) THEN "shown" ELSE "access_denied")
    /\ UNCHANGED <<today, authorized_users, inflight, accessVars, mealVars>>

\* ------------------------------------------------------- admin commands

\* /admin_panel, /list_requests and /manage_users: is_admin, then a listing
\* read from the store.
AdminCommands == {"admin_panel", "list_requests", "manage_users"}

AdminCommand(u, cmd) ==
    /\ last' = Answer(cmd, u, u, IsAdmin(u),
                      IF IsAdmin(u) THEN "shown" ELSE "admin_required")
    /\ UNCHANGED <<today, authorized_users, inflight, accessVars, mealVars>>

\* /reload_access: check_user_access_async, which is is_authorized, then an
\* informational reply. read says whether the store answers the read.
ReloadAccessCommand(u, read) ==
    /\ last' = [Answer("reload_access", u, u, IsAuthorizedRead(u, read),
                       IF IsAuthorizedRead(u, read) THEN "info" ELSE "no_permission")
                    EXCEPT !.num = IF read THEN 1 ELSE 0]
    /\ UNCHANGED <<today, authorized_users, inflight, accessVars, mealVars>>

\* ------------------------------------------------------ admin callbacks

\* FirebaseService.approve_user_access: the request record after the call.
ApproveUserAccessRecord(t, by) ==
    IF access_requests[t].exists
    THEN [access_requests[t] EXCEPT !.status = "approved", !.approved_at = today,
                                    !.approved_by = by]
    ELSE access_requests[t]

\* FirebaseService.approve_user_access: the profile after the call.
ApproveUserAccessProfile(t) ==
    IF ~access_requests[t].exists THEN users[t]
    ELSE IF users[t].exists
         THEN [users[t] EXCEPT !.last_active = today]
         ELSE [exists |-> TRUE, created_at |-> today, last_active |-> today]

\* The callbacks that call approve_user_access: approve_user_,
\* reapprove_user_ and approve_reinstate_.
ApproveCallbacks == {"approve_user", "reapprove_user", "approve_reinstate"}

HandleApproveUser(op, a, t) ==
    /\ IF CheckUserAccess(a)
       THEN /\ access_requests' = [access_requests EXCEPT ![t] = ApproveUserAccessRecord(t, a)]
            /\ users' = [users EXCEPT ![t] = ApproveUserAccessProfile(t)]
            /\ last' = Answer(op, a, t, TRUE,
                              IF access_requests[t].exists THEN "approved" ELSE "failed")
       ELSE /\ UNCHANGED accessVars
            /\ last' = Answer(op, a, t, FALSE, "access_denied")
    /\ UNCHANGED <<today, authorized_users, inflight, mealVars>>

\* _handle_approve_request writing with set(..., merge=True), which creates
\* the document when there is none.
ApproveRequestRecord_Upsert(t) ==
    IF access_requests[t].exists
    THEN [access_requests[t] EXCEPT !.status = "approved", !.approved_at = today]
    ELSE [exists |-> TRUE, status |-> "approved", requested_at |-> 0,
          approved_at |-> today, approved_by |-> None, denied_at |-> 0,
          revoked_at |-> 0, revoked_by |-> None, reinstate_requested_at |-> 0]

\* JiakAI._handle_approve_request: a bare update of the request document,
\* which the store refuses when the document is absent.
ApproveRequestRecord(t) ==
    IF access_requests[t].exists
    THEN [access_requests[t] EXCEPT !.status = "approved", !.approved_at = today]
    ELSE access_requests[t]

HandleApproveRequest(a, t) ==
    /\ IF CheckUserAccess(a)
       THEN /\ access_requests' = [access_requests EXCEPT ![t] = ApproveRequestRecord(t)]
            /\ last' = Answer("approve_request", a, t, TRUE,
                              IF access_requests[t].exists THEN "approved" ELSE "error")
       ELSE /\ UNCHANGED access_requests
            /\ last' = Answer("approve_request", a, t, FALSE, "access_denied")
    /\ UNCHANGED <<today, authorized_users, inflight, users, mealVars>>

\* JiakAI._handle_deny_user, _handle_deny_request and _handle_deny_reinstate:
\* the same bare update to denied.
DenyRecord(t) ==
    IF access_requests[t].exists
    THEN [access_requests[t] EXCEPT !.status = "denied", !.denied_at = today]
    ELSE access_requests[t]

DenyCallbacks == {"deny_user", "deny_request", "deny_reinstate"}

HandleDeny(op, a, t) ==
    /\ IF CheckUserAccess(a)
       THEN /\ access_requests' = [access_requests EXCEPT ![t] = DenyRecord(t)]
            /\ last' = Answer(op, a, t, TRUE,
                              IF access_requests[t].exists THEN "denied" ELSE "error")
       ELSE /\ UNCHANGED access_requests
            /\ last' = Answer(op, a, t, FALSE, "access_denied")
    /\ UNCHANGED <<today, authorized_users, inflight, users, mealVars>>

\* FirebaseService.revoke_user_access.
RevokeUserAccessRecord(t, by) ==
    IF access_requests[t].exists
    THEN [access_requests[t] EXCEPT !.status = "revoked", !.revoked_at = today,
                                    !.revoked_by = by]
    ELSE access_requests[t]

\* revoke_user_access removing the profile document of the revoked user.
RevokeUserAccessProfile_Deleted(t) ==
    IF access_requests[t].exists THEN NoDoc ELSE users[t]

\* FirebaseService.revoke_user_access: the profile after the call, which
\* writes nothing to the users collection.
RevokeUserAccessProfile(t) == users[t]

HandleRevokeUser(a, t) ==
    /\ IF CheckUserAccess(a)
       THEN /\ access_requests' = [access_requests EXCEPT ![t] = RevokeUserAccessRecord(t, a)]
            /\ users' = [users EXCEPT ![t] = RevokeUserAccessProfile(t)]
            /\ last' = Answer("revoke_user", a, t, TRUE,
                              IF access_requests[t].exists THEN "revoked" ELSE "failed")
       ELSE /\ UNCHANGED accessVars
            /\ last' = Answer("revoke_user", a, t, FALSE, "access_denied")
    /\ UNCHANGED <<today, authorized_users, inflight, mealVars>>

\* ------------------------------------------------------------- nutrition

\* NutritionData holds floats; the model holds them in fortieths of a unit, so
\* that a tenth (the gateway's rounding step) and the halves and quarters of
\* the totals drawn below are whole numbers.
Unit == 40
Tenth == Unit \div 10

NutrientKeys == {"calories", "protein", "carbs", "fat", "fiber", "sugar", "sodium"}

Max0(x) == IF x < 0 THEN 0 ELSE x

\* A float product by a multiplier, which the model holds in hundredths.
Scale(x, m) == (x * m) \div 100

\* round(x, 1), halves going up (no drawn product falls on a half).
Round1(x) == ((2 * x + Tenth) \div (2 * Tenth)) * Tenth

Food(calories, protein, carbs, fat, fiber, sugar, sodium) ==
    [calories |-> calories * Unit, protein |-> protein * Unit,
     carbs |-> carbs * Unit, fat |-> fat * Unit, fiber |-> fiber * Unit,
     sugar |-> sugar * Unit, sodium |-> sodium * Unit]

ZeroNutrients == Food(0, 0, 0, 0, 0, 0, 0)

\* The nutrient fields of a nutrition dict.
Nutrients(n) == [f \in NutrientKeys |-> n[f]]

\* The totals the nutrition API answers for a query (summed over its foods).
KnownFoods == {<<"rice">>, <<"tofu">>, <<"tofu", "fried)">>}

ApiTotals(description) ==
    CASE description = <<"rice">> -> Food(450, 8, 96, 2, 2, 0, 4)
      [] description = <<"tofu">> -> Food(120, 12, 4, 8, 0, 0, 0)
      [] description = <<"tofu", "fried)">> -> Food(240, 12, 8, 16, 0, 2, 6)
      [] OTHER -> ZeroNutrients

\* NutritionixService._get_default_nutrition_data: zeros, the error marker
\* and no raw_nutrition.
DefaultNutritionData ==
    [nutrition |-> ZeroNutrients @@ [error |-> TRUE],
     raw_nutrition |-> ZeroNutrients @@ [empty |-> TRUE]]

\* NutritionixService._process_nutrition_data: the totals times the
\* multiplier, rounded, next to the rounded totals themselves.
ProcessNutritionData(totals, m) ==
    [nutrition |-> [f \in NutrientKeys \cup {"error"} |->
                       IF f = "error" THEN FALSE ELSE Round1(Scale(totals[f], m))],
     raw_nutrition |-> [f \in NutrientKeys \cup {"empty"} |->
                       IF f = "empty" THEN FALSE ELSE Round1(totals[f])]]

\* NutritionixService.get_nutrition_data: the processed answer, or the
\* default when the API is down or knows no food in the query.
GetNutritionData(description, m, up) ==
    IF up /\ description \in KnownFoods
    THEN ProcessNutritionData(ApiTotals(description), m)
    ELSE DefaultNutritionData

\* --------------------------------------------------------- meal input

\* The texts senders type: two meals and two replies to the custom prompt.
FoodTexts == {"rice", "tofu"}
NumberTexts == {"2", "15"}
Texts == FoodTexts \cup NumberTexts

\* main.py handle_text: meal_id = f"t_{hash(text) % 100000}".
KeyOf(text) == IF text = "rice" THEN "t_1" ELSE "t_2"

\* OpenAIService.analyze_food_text: the description found in a text.
Describe(text) == IF text = "rice" THEN <<"rice">> ELSE <<"tofu", "fried)">>

\* portion_data['overall_multiplier'] of an analysis, in hundredths.
AnalysisMultipliers == {100, 200}

\* float(text.strip()), in hundredths; -1 stands for ValueError.
ParseFloat(text) ==
    CASE text = "0.3" -> 30
      [] text = "0.5" -> 50
      [] text = "0.75" -> 75
      [] text = "1" -> 100
      [] text = "2" -> 200
      [] text = "3" -> 300
      [] text = "15" -> 1500
      [] OTHER -> -1

\* The pending_meal dict handle_text builds. nudged is history the model
\* keeps beside it: whether a nudge was applied to the meal.
PendingMeal(u, text, m, up) ==
    [exists |-> TRUE,
     timestamp |-> today,
     input_value |-> text,
     food_description |-> Describe(text),
     nutrition |-> GetNutritionData(Describe(text), m, up).nutrition,
     user_id |-> u,
     portion_multiplier |-> m,
     raw_nutrition |-> GetNutritionData(Describe(text), m, up).raw_nutrition,
     nudged |-> FALSE]

HasPending(u, k) == k \in Keys /\ pending_meals[u][k].exists

\* ------------------------------------------------------ pending meals

\* The multipliers the model sends, in hundredths, and str() of each as a
\* float, which the f-strings of both handlers print.
Multipliers == {30, 50, 75, 100, 200, 300, 1500}

FloatText(m) ==
    CASE m = 30 -> "0.3"
      [] m = 50 -> "0.5"
      [] m = 75 -> "0.75"
      [] m = 100 -> "1.0"
      [] m = 200 -> "2.0"
      [] m = 300 -> "3.0"
      [] m = 1500 -> "15.0"
      [] OTHER -> "?"

\* _handle_portion_change: the text appended for a multiplier.
PortionText(m) ==
    CASE m = 50 -> "Half portion)"
      [] m = 75 -> "3/4 portion)"
      [] m = 125 -> "Large portion)"
      [] m = 150 -> "1.5x portion)"
      [] m = 200 -> "Double portion)"
      [] OTHER -> FloatText(m) \o "x portion)"

\* _handle_custom_portion_input: the text appended for a custom multiplier.
CustomPortionText(m) ==
    CASE m = 100 -> "Normal portion)"
      [] m < 50 -> FloatText(m) \o "x small portion)"
      [] m > 200 -> FloatText(m) \o "x large portion)"
      [] OTHER -> FloatText(m) \o "x portion)"

\* The segments a description can end in with a closing parenthesis.
ClosingSegments ==
    {"fried)"} \cup {PortionText(m) : m \in Multipliers}
        \cup {CustomPortionText(m) : m \in Multipliers}

\* JiakAI._handle_custom_portion_input: the reply to the custom prompt. The
\* flag is dropped once the number is in range; the meal is then re-queried
\* under the text before the first " (" of its description.
CustomRange(m) == m >= 10 /\ m <= 1000

BaseDescription(description) ==
    IF Len(description) > 1 /\ description[Len(description)] \in ClosingSegments
    THEN <<description[1]>>
    ELSE description

CustomPortionInput(u, text, up) ==
    LET k == custom_portion_meal_id[u]
        m == ParseFloat(text)
        meal == pending_meals[u][k]
        base == BaseDescription(meal.food_description)
    IN  IF m = -1
        THEN /\ last' = Answer("custom_portion_input", u, k, TRUE, "invalid_input")
             /\ UNCHANGED chatVars
        ELSE IF ~CustomRange(m)
        THEN /\ last' = AnswerOn("custom_portion_input", u, k, "invalid_range", None, m, 0)
             /\ UNCHANGED chatVars
        ELSE /\ custom_portion_meal_id' = [custom_portion_meal_id EXCEPT ![u] = None]
             /\ IF ~HasPending(u, k)
                THEN /\ last' = AnswerOn("custom_portion_input", u, k, "meal_not_found",
                                         None, m, 0)
                     /\ UNCHANGED pending_meals
                ELSE /\ pending_meals' = [pending_meals EXCEPT ![u][k] =
                            [@ EXCEPT !.nutrition = GetNutritionData(base, m, up).nutrition,
                                      !.portion_multiplier = m,
                                      !.food_description =
                                          Append(base, CustomPortionText(m))]]
                     /\ last' = AnswerOn("custom_portion_input", u, k, "updated",
                                         None, m, 0)

\* handle_text past the gate and the custom-portion branch: the analysis and
\* the nutrition query, stored under the text's key over whatever is there.
AnalyseText(u, text, m, up) ==
    IF text \in FoodTexts
    THEN /\ count.analysed < MaxMeals
         /\ count' = [count EXCEPT !.analysed = @ + 1]
         /\ pending_meals' = [pending_meals EXCEPT ![u][KeyOf(text)] =
                                  PendingMeal(u, text, m, up)]
         /\ last' = AnswerOn("text", u, KeyOf(text), "pending_created", None, m, 0)
         /\ UNCHANGED custom_portion_meal_id
    ELSE /\ last' = Answer("text", u, None, TRUE, "analysis_failed")
         /\ UNCHANGED <<chatVars, count>>

\* JiakAI.handle_text.
HandleText(u, text, m, up) ==
    /\ IF ~CheckUserAccess(u)
       THEN /\ last' = Denied("text", u, None)
            /\ UNCHANGED <<chatVars, count>>
       ELSE IF custom_portion_meal_id[u] # None
       THEN /\ CustomPortionInput(u, text, up)
            /\ UNCHANGED count
       ELSE AnalyseText(u, text, m, up)
    /\ UNCHANGED <<today, authorized_users, inflight, accessVars, storeVars>>

\* The portion buttons of _handle_adjust_portions the model presses.
PresetMultipliers == {50, 200}

\* A portion change that renames the meal and leaves its nutrition.
ChangedPortion_DescriptionOnly(meal, m) ==
    [meal EXCEPT !.food_description = Append(@, PortionText(m))]

\* JiakAI._handle_portion_change: the current nutrition times the multiplier.
ChangedPortion(meal, m) ==
    [meal EXCEPT !.nutrition = [f \in DOMAIN meal.nutrition |->
                                    IF f \in NutrientKeys
                                    THEN Scale(meal.nutrition[f], m)
                                    ELSE meal.nutrition[f]],
                 !.food_description = Append(@, PortionText(m))]

HandlePortionChange(u, k, m) ==
    /\ IF ~CheckUserAccess(u)
       THEN /\ last' = Denied("portion_change", u, k)
            /\ UNCHANGED <<pending_meals, count>>
       ELSE IF ~HasPending(u, k)
       THEN /\ last' = AnswerOn("portion_change", u, k, "meal_not_found", None, m, 0)
            /\ UNCHANGED <<pending_meals, count>>
       ELSE /\ count.adjusts < MaxAdjust
            /\ count' = [count EXCEPT !.adjusts = @ + 1]
            /\ pending_meals' = [pending_meals EXCEPT ![u][k] = ChangedPortion(@, m)]
            /\ last' = AnswerOn("portion_change", u, k, "updated", None, m, 0)
    /\ UNCHANGED <<today, authorized_users, inflight, accessVars, storeVars,
                   custom_portion_meal_id>>

\* JiakAI._handle_custom_portion: the prompt, and the flag for the next text.
HandleCustomPortion(u, k) ==
    /\ IF ~CheckUserAccess(u)
       THEN /\ last' = Denied("custom_portion", u, k)
            /\ UNCHANGED custom_portion_meal_id
       ELSE /\ custom_portion_meal_id' = [custom_portion_meal_id EXCEPT ![u] = k]
            /\ last' = Answer("custom_portion", u, k, TRUE, "prompted")
    /\ UNCHANGED <<today, authorized_users, inflight, accessVars, storeVars, pending_meals,
                   count>>

\* The nudge buttons of _handle_edit_calories, _protein, _carbs and _fat the
\* model presses (deltas in whole units).
Nudges == {<<"calories", -100>>, <<"protein", -10>>, <<"protein", 10>>}

\* A nudge without the floor at zero: what _handle_nutrition_adjust would
\* store if it assigned nutrition[nutrient] + adjustment.
NudgedValue_Unfloored(old, delta) == old + delta

\* JiakAI._handle_nutrition_adjust: max(0, nutrition[nutrient] + adjustment).
NudgedValue(old, delta) == Max0(old + delta)

HandleNutritionAdjust(u, k, nutrient, adjustment) ==
    /\ IF ~CheckUserAccess(u)
       THEN /\ last' = Denied("nutrition_adjust", u, k)
            /\ UNCHANGED <<pending_meals, count>>
       ELSE IF ~HasPending(u, k)
       THEN /\ last' = AnswerOn("nutrition_adjust", u, k, "meal_not_found",
                                nutrient, adjustment, 0)
            /\ UNCHANGED <<pending_meals, count>>
       ELSE /\ count.adjusts < MaxAdjust
            /\ count' = [count EXCEPT !.adjusts = @ + 1]
            /\ pending_meals' = [pending_meals EXCEPT ![u][k] =
                   [@ EXCEPT !.nutrition[nutrient] = NudgedValue(@, adjustment * Unit),
                             !.nudged = TRUE]]
            /\ last' = AnswerOn("nutrition_adjust", u, k, "updated", nutrient,
                                adjustment, pending_meals[u][k].nutrition[nutrient])
    /\ UNCHANGED <<today, authorized_users, inflight, accessVars, storeVars,
                   custom_portion_meal_id>>

\* A cancel that answers and leaves the pending store as it is.
CancelledMeals_Kept(u, k) == pending_meals[u]

\* _handle_cancel_meal: the sender's pending store without the key.
CancelledMeals(u, k) == [pending_meals[u] EXCEPT ![k] = NoDoc]

\* JiakAI._handle_cancel_meal.
HandleCancelMeal(u, k) ==
    /\ IF ~CheckUserAccess(u)
       THEN /\ last' = Denied("cancel", u, k)
            /\ UNCHANGED pending_meals
       ELSE /\ pending_meals' = [pending_meals EXCEPT ![u] = CancelledMeals(u, k)]
            /\ last' = Answer("cancel", u, k, TRUE, "cancelled")
    /\ UNCHANGED <<today, authorized_users, inflight, accessVars, storeVars,
                   custom_portion_meal_id, count>>

\* ---------------------------------------------------------------- ledger

\* The meal document save_meal adds: the pending_meal dict as it stands.
MealDoc(meal) ==
    [exists |-> TRUE,
     timestamp |-> meal.timestamp,
     input_value |-> meal.input_value,
     food_description |-> meal.food_description,
     nutrition |-> meal.nutrition,
     user_id |-> meal.user_id,
     portion_multiplier |-> meal.portion_multiplier,
     raw_nutrition |-> meal.raw_nutrition]

\* FirebaseService._update_daily_summary, on the summary of datetime.now():
\* totals holds total_calories .. total_sodium.
AddedSummary(summary, nutrition) ==
    IF summary.exists
    THEN [summary EXCEPT !.totals = [f \in NutrientKeys |-> @[f] + nutrition[f]],
                         !.meal_count = @ + 1,
                         !.last_updated = today]
    ELSE [exists |-> TRUE, totals |-> Nutrients(nutrition), meal_count |-> 1,
          created_at |-> today, last_updated |-> today]

UpdateDailySummary(u, meal) ==
    [summaries[u] EXCEPT ![today] = AddedSummary(@, meal.nutrition)]

\* _subtract_from_daily_summary without max(0, ...).
SubtractedSummary_Unfloored(summary, nutrition) ==
    IF summary.exists
    THEN [summary EXCEPT !.totals = [f \in NutrientKeys |-> @[f] - nutrition[f]],
                         !.meal_count = @ - 1,
                         !.last_updated = today]
    ELSE summary

\* FirebaseService._subtract_from_daily_summary, on the summary of the
\* meal's timestamp, when there is one.
SubtractedSummary(summary, nutrition) ==
    IF summary.exists
    THEN [summary EXCEPT !.totals = [f \in NutrientKeys |-> Max0(@[f] - nutrition[f])],
                         !.meal_count = Max0(@ - 1),
                         !.last_updated = today]
    ELSE summary

SubtractFromDailySummary(u, meal) ==
    [summaries[u] EXCEPT ![meal.timestamp] = SubtractedSummary(@, meal.nutrition)]

\* update_meal's updated_data: either a nutrition dict with 10 more protein,
\* or a new description and no nutrition key.
EditKinds == {"protein", "description"}

UpdatedData(meal, kind) ==
    IF kind = "protein"
    THEN [has_nutrition |-> TRUE,
          nutrition |-> [meal.nutrition EXCEPT !.protein = @ + 10 * Unit],
          food_description |-> meal.food_description]
    ELSE [has_nutrition |-> FALSE,
          nutrition |-> ZeroNutrients,
          food_description |-> <<"edited">>]

\* updated_data.get('nutrition', {}).get(f, 0).
UpdatedNutrient(updated_data, f) ==
    IF updated_data.has_nutrition THEN updated_data.nutrition[f] ELSE 0

\* FirebaseService._update_daily_summary_for_meal_edit, on the summary of
\* the original meal's timestamp, when there is one.
EditedSummary(summary, original, updated_data) ==
    IF summary.exists
    THEN [summary EXCEPT !.totals = [f \in NutrientKeys |->
                                        @[f] - original.nutrition[f]
                                             + UpdatedNutrient(updated_data, f)],
                         !.last_updated = today]
    ELSE summary

UpdateDailySummaryForMealEdit(u, original, updated_data) ==
    [summaries[u] EXCEPT ![original.timestamp] = EditedSummary(@, original, updated_data)]

\* meal_ref.update(updated_data): the keys given replace what is stored.
UpdatedMeal(meal, updated_data) ==
    [meal EXCEPT !.nutrition = IF updated_data.has_nutrition
                               THEN updated_data.nutrition ELSE @,
                 !.food_description = updated_data.food_description]

Saved(op, u, target, reply, id) ==
    [AnswerOn(op, u, target, reply, None, id, 0) EXCEPT !.snap = summaries[u]]

\* save_meal folding the meal into the summary although the add failed.
SaveMealSummaries_UpdatesOnFailure(u, meal, ok) == UpdateDailySummary(u, meal)

\* FirebaseService.save_meal: the user's summaries after the call. When
\* meals_ref.add raises, _update_daily_summary is never reached.
SaveMealSummaries(u, meal, ok) ==
    IF ok THEN UpdateDailySummary(u, meal) ELSE summaries[u]

\* A commit that files the meal under one fixed user whoever entered it.
MealOwner_Fixed(u, meal) == "a1"

\* _handle_confirm_meal: user_id = meal_data['user_id'], the user save_meal
\* files the meal under, whoever pressed the button.
MealOwner(u, meal) == meal.user_id

\* _handle_confirm_meal: the sender's pending store after the call. The key
\* is deleted after the reply to a saved meal went out, and in no other case.
ConfirmedMeals(u, k, ok, sent) ==
    IF ok /\ sent THEN [pending_meals[u] EXCEPT ![k] = NoDoc] ELSE pending_meals[u]

\* JiakAI._handle_confirm_meal with FirebaseService.save_meal: the document
\* is added under a fresh id, the summary of today is updated, the reply is
\* sent and the pending meal is dropped. ok says whether the store accepts
\* the add; when it does not, save_meal returns None and the pending meal is
\* kept. sent says whether edit_message_text delivers the reply to a saved
\* meal; when it raises, the handler ends before the del. A user is issued
\* at most MaxMeals meal ids.
HandleConfirmMeal(u, k, ok, sent) ==
    /\ IF ~CheckUserAccess(u)
       THEN /\ last' = Denied("confirm", u, k)
            /\ UNCHANGED <<storeVars, pending_meals>>
       ELSE IF ~HasPending(u, k)
       THEN /\ last' = Answer("confirm", u, k, TRUE, "meal_not_found")
            /\ UNCHANGED <<storeVars, pending_meals>>
       ELSE LET user_id == MealOwner(u, pending_meals[u][k])
            IN  /\ issued[user_id] < MaxMeals
                /\ issued' = IF ok THEN [issued EXCEPT ![user_id] = @ + 1] ELSE issued
                /\ meals' = IF ok
                            THEN [meals EXCEPT ![user_id][issued[user_id] + 1] =
                                      MealDoc(pending_meals[u][k])]
                            ELSE meals
                /\ summaries' = [summaries EXCEPT ![user_id] =
                                     SaveMealSummaries(user_id, pending_meals[u][k], ok)]
                /\ pending_meals' = [pending_meals EXCEPT ![u] =
                                         ConfirmedMeals(u, k, ok, sent)]
                /\ last' = IF ~ok
                           THEN Saved("confirm", u, k, "save_failed", 0)
                           ELSE IF sent
                           THEN Saved("confirm", u, k, "saved", issued[user_id] + 1)
                           ELSE Saved("confirm", u, k, "reply_failed", issued[user_id] + 1)
    /\ UNCHANGED <<today, authorized_users, inflight, accessVars, custom_portion_meal_id,
                   count>>

\* JiakAI._handle_delete_confirm with FirebaseService.delete_meal.
HandleDeleteConfirm(u, id) ==
    /\ IF ~CheckUserAccess(u)
       THEN /\ last' = Denied("delete_confirm", u, "meal")
            /\ UNCHANGED <<meals, summaries>>
       ELSE IF ~meals[u][id].exists
       THEN /\ last' = AnswerOn("delete_confirm", u, "meal", "meal_not_found", None, id, 0)
            /\ UNCHANGED <<meals, summaries>>
       ELSE /\ meals' = [meals EXCEPT ![u][id] = NoDoc]
            /\ summaries' = [summaries EXCEPT ![u] =
                                 SubtractFromDailySummary(u, meals[u][id])]
            /\ last' = [Saved("delete_confirm", u, "meal", "deleted", id)
                            EXCEPT !.old = meals[u][id].nutrition.calories]
    /\ UNCHANGED <<today, authorized_users, inflight, accessVars, chatVars, issued,
                   count>>

\* FirebaseService.update_meal, which no handler of main.py calls: the
\* store's edit operation, called for a user's meal.
UpdateMeal(u, id, kind) ==
    /\ IF ~meals[u][id].exists
       THEN /\ last' = AnswerOn("update_meal", u, "meal", "failed", kind, id, 0)
            /\ UNCHANGED <<meals, summaries, count>>
       ELSE /\ count.edits < MaxEdits
            /\ count' = [count EXCEPT !.edits = @ + 1]
            /\ meals' = [meals EXCEPT ![u][id] =
                             UpdatedMeal(@, UpdatedData(meals[u][id], kind))]
            /\ summaries' = [summaries EXCEPT ![u] =
                   UpdateDailySummaryForMealEdit(u, meals[u][id],
                                                 UpdatedData(meals[u][id], kind))]
            /\ last' = [Saved("update_meal", u, "meal", "updated", id)
                            EXCEPT !.field = kind]
    /\ UNCHANGED <<today, authorized_users, inflight, accessVars, chatVars, issued>>

\* JiakAI.summary_command with FirebaseService.get_daily_summary: the
\* document of today, None when there is none; "if not summary" answers that
\* no meals are logged, any document is shown with its totals and its count.
SummaryCommand(u) ==
    /\ IF ~CheckUserAccess(u)
       THEN last' = Denied("summary_command", u, None)
       ELSE IF ~summaries[u][today].exists
       THEN last' = Answer("summary_command", u, None, TRUE, "no_meals")
       ELSE last' = AnswerOn("summary_command", u, None, "summary_shown", None,
                             summaries[u][today].meal_count,
                             summaries[u][today].totals.calories)
    /\ UNCHANGED <<today, authorized_users, inflight, accessVars, mealVars>>

\* ------------------------------------------------------ callback dispatch

\* Callback data as its words between underscores, a meal key being one word.
StartsWith(data, prefix) ==
    Len(data) >= Len(prefix) /\ SubSeq(data, 1, Len(prefix)) = prefix

\* The elif chain of handle_callback in source order, as far as the menu
\* callbacks go: data.startswith(pat + "_") for a prefix, data == pat for exact.
DispatchChain ==
    << [kind |-> "prefix", pat |-> <<"confirm">>, handler |-> "_handle_confirm_meal"],
       [kind |-> "prefix", pat |-> <<"cancel">>, handler |-> "_handle_cancel_meal"],
       [kind |-> "prefix", pat |-> <<"adjust">>, handler |-> "_handle_adjust_portions"],
       [kind |-> "prefix", pat |-> <<"portion">>, handler |-> "_handle_portion_change"],
       [kind |-> "prefix", pat |-> <<"custom", "portion">>,
        handler |-> "_handle_custom_portion"],
       [kind |-> "prefix", pat |-> <<"back">>, handler |-> "_handle_back_to_confirmation"],
       [kind |-> "prefix", pat |-> <<"edit">>, handler |-> "_handle_edit_items"],
       [kind |-> "prefix", pat |-> <<"history">>, handler |-> "_handle_history_date"],
       [kind |-> "exact", pat |-> <<"stats", "week">>, handler |-> "_handle_weekly_stats"],
       [kind |-> "exact", pat |-> <<"delete", "meal">>,
        handler |-> "_handle_delete_meal_selection"],
       [kind |-> "exact", pat |-> <<"trends">>, handler |-> "_handle_trends"],
       [kind |-> "prefix", pat |-> <<"edit", "desc">>,
        handler |-> "_handle_edit_description"],
       [kind |-> "prefix", pat |-> <<"edit", "cal">>, handler |-> "_handle_edit_calories"],
       [kind |-> "prefix", pat |-> <<"edit", "prot">>, handler |-> "_handle_edit_protein"],
       [kind |-> "prefix", pat |-> <<"edit", "carbs">>, handler |-> "_handle_edit_carbs"],
       [kind |-> "prefix", pat |-> <<"edit", "fat">>, handler |-> "_handle_edit_fat"],
       [kind |-> "prefix", pat |-> <<"delete", "confirm">>,
        handler |-> "_handle_delete_confirm"],
       [kind |-> "exact", pat |-> <<"cancel", "delete">>,
        handler |-> "_handle_cancel_delete"],
       [kind |-> "prefix", pat |-> <<"trend">>, handler |-> "_handle_trend_period"],
       [kind |-> "exact", pat |-> <<"back", "to", "history">>,
        handler |-> "_handle_back_to_history"] >>

\* A branch condition of the chain. A prefix ends in an underscore, so data
\* that is the prefix words alone does not start with it.
Matches(entry, data) ==
    IF entry.kind = "exact"
    THEN data = entry.pat
    ELSE StartsWith(data, entry.pat) /\ Len(data) > Len(entry.pat)

\* The branch of the chain data takes: the first whose condition holds, 0
\* when none does.
Branch(data) ==
    LET hits == {i \in DOMAIN DispatchChain : Matches(DispatchChain[i], data)}
    IN  IF hits = {} THEN 0 ELSE CHOOSE i \in hits : \A j \in hits : i <= j

\* The callback data of the menu buttons: the confirmation keyboard's Adjust
\* and Edit, the edit menu's five field buttons and Back, and the Cancel and
\* Back buttons of the delete and trend menus.
MenuPayloads ==
    {<<"adjust", "t_1">>, <<"edit", "t_1">>, <<"back", "t_1">>,
     <<"edit", "desc", "t_1">>, <<"edit", "cal", "t_1">>, <<"edit", "prot", "t_1">>,
     <<"edit", "carbs", "t_1">>, <<"edit", "fat", "t_1">>,
     <<"cancel", "delete">>, <<"back", "to", "history">>}

\* data.replace(prefix, ''): the words after the prefix of the branch taken.
MealIdOf(data, entry) == SubSeq(data, Len(entry.pat) + 1, Len(data))

\* The handlers of the chain that look the meal id up in pending_meals before
\* they show their menu.
LookupHandlers == {"_handle_back_to_confirmation", "_handle_edit_items"}

\* What the handler a menu callback reached answers. _handle_cancel_meal
\* finds no pending meal under the id "delete" and removes nothing.
MenuReply(u, entry, data) ==
    IF entry.handler \in LookupHandlers
    THEN IF /\ Len(MealIdOf(data, entry)) = 1
            /\ HasPending(u, MealIdOf(data, entry)[1])
         THEN "menu_shown"
         ELSE "meal_not_found"
    ELSE IF entry.handler = "_handle_cancel_meal" THEN "cancelled"
    ELSE "menu_shown"

\* JiakAI.handle_callback for a menu callback: the gate, the chain, and the
\* handler reached, none of which writes anything the bot reads again. op is
\* the handler, target the first word of the data, num its number of words.
HandleMenuCallback(u, data) ==
    /\ IF ~CheckUserAccess(u)
       THEN last' = Denied("handle_callback", u, data[1])
       ELSE IF Branch(data) = 0
       THEN last' = Answer("handle_callback", u, data[1], TRUE, "ignored")
       ELSE last' = AnswerOn(DispatchChain[Branch(data)].handler, u, data[1],
                             MenuReply(u, DispatchChain[Branch(data)], data),
                             data[2], Len(data), 0)
    /\ UNCHANGED <<today, authorized_users, inflight, accessVars, mealVars>>

\* ------------------------------------------------------ store workers

\* The processes that call save_meal on the one store: the bot process and a
\* second instance of it.
Workers == {"w1", "w2"}

\* A worker with no save_meal call under way.
Idle == [pc |-> "idle"]

\* The user the workers commit for, and the meals they commit.
RaceUser == "a1"
RaceMultipliers == {100, 200}

\* A summary write that reads the document again in the transaction of the
\* write.
WrittenSummary_Transactional(read, current, nutrition) ==
    AddedSummary(current, nutrition)

\* _update_daily_summary: update() or set() of the totals computed from the
\* snapshot summary_ref.get() returned, whatever the document holds by now.
WrittenSummary(read, current, nutrition) == AddedSummary(read, nutrition)

\* save_meal up to meals_ref.add: the meal document is stored.
SaveMealAdd(w, text, m) ==
    /\ inflight[w].pc = "idle"
    /\ issued[RaceUser] < MaxMeals
    /\ issued' = [issued EXCEPT ![RaceUser] = @ + 1]
    /\ meals' = [meals EXCEPT ![RaceUser][issued[RaceUser] + 1] =
                     MealDoc(PendingMeal(RaceUser, text, m, TRUE))]
    /\ inflight' = [inflight EXCEPT ![w] =
                        [pc |-> "added", id |-> issued[RaceUser] + 1]]
    /\ last' = AnswerOn("save_meal_add", RaceUser, w, "added", None,
                        issued[RaceUser] + 1, 0)
    /\ UNCHANGED <<today, authorized_users, accessVars, summaries, chatVars, count>>

\* _update_daily_summary up to summary_ref.get(): the date of now and the
\* snapshot of its summary.
UpdateSummaryGet(w) ==
    /\ inflight[w].pc = "added"
    /\ inflight' = [inflight EXCEPT ![w] =
                        [pc |-> "read", id |-> inflight[w].id, date |-> today,
                         read |-> summaries[RaceUser][today]]]
    /\ last' = AnswerOn("summary_get", RaceUser, w, "read", None, inflight[w].id, 0)
    /\ UNCHANGED <<today, authorized_users, accessVars, storeVars, chatVars, count>>

\* _update_daily_summary from the snapshot on: summary_ref.update() or set().
UpdateSummaryWrite(w) ==
    /\ inflight[w].pc = "read"
    /\ summaries' = [summaries EXCEPT ![RaceUser][inflight[w].date] =
                         WrittenSummary(inflight[w].read, @,
                                        meals[RaceUser][inflight[w].id].nutrition)]
    /\ inflight' = [inflight EXCEPT ![w].pc = "done"]
    /\ last' = AnswerOn("summary_write", RaceUser, w, "written", None,
                        inflight[w].id, 0)
    /\ UNCHANGED <<today, authorized_users, accessVars, meals, issued, chatVars, count>>

\* ---------------------------------------------------------------- clock

\* Midnight passes: datetime.now() moves to the next date.
Tick ==
    /\ today < MaxDay
    /\ today' = today + 1
    /\ last' = Answer("tick", None, None, FALSE, None)
    /\ UNCHANGED <<authorized_users, inflight, accessVars, mealVars>>

\* ------------------------------------------------------- specifications

\* JiakAI.__init__ over an empty store.
Init ==
    /\ today = 1
    /\ authorized_users = LoadFromEnv
    /\ access_requests = [u \in Users |-> NoDoc]
    /\ users = [u \in Users |-> NoDoc]
    /\ meals = [u \in Users |-> [i \in MealIds |-> NoDoc]]
    /\ summaries = [u \in Users |-> [d \in Days |-> NoDoc]]
    /\ pending_meals = [u \in Users |-> [k \in Keys |-> NoDoc]]
    /\ custom_portion_meal_id = [u \in Users |-> None]
    /\ issued = [u \in Users |-> 0]
    /\ count = [analysed |-> 0, adjusts |-> 0, edits |-> 0]
    /\ last = Answer("init", None, None, FALSE, None)
    /\ inflight = [w \in Workers |-> Idle]

\* The access workflow: requests, reinstatement, the admin callbacks and the
\* gated commands, for one listed and one unlisted sender.
NextAccess ==
    \/ Tick
    \/ \E u \in AccessSenders : RequestAccessCommand(u)
    \/ \E u \in AccessSenders : RequestAccessCallback(u)
    \/ \E u \in AccessSenders : HandleRequestReinstate(u)
    \/ \E u \in AccessSenders : StartCommand(u)
    \/ \E u \in AccessSenders, cmd \in ReadCommands : ReadCommand(u, cmd)
    \/ \E u \in AccessSenders, cmd \in AdminCommands : AdminCommand(u, cmd)
    \/ \E u \in AccessSenders, read \in BOOLEAN : ReloadAccessCommand(u, read)
    \/ \E a, t \in AccessSenders, op \in ApproveCallbacks : HandleApproveUser(op, a, t)
    \/ \E a, t \in AccessSenders : HandleApproveRequest(a, t)
    \/ \E a, t \in AccessSenders, op \in DenyCallbacks : HandleDeny(op, a, t)
    \/ \E a, t \in AccessSenders : HandleRevokeUser(a, t)

SpecAccess == Init /\ [][NextAccess]_vars

\* The pending-meal workflow within one day: both listed senders enter,
\* cancel and confirm meals, and the first also adjusts them, pressing the
\* portion and nudge buttons of the meal under the first key. The analysis
\* finds a normal portion in every text.
Adjusters == {"a1"}
NormalPortion == {100}
AdjustKeys == {"t_1"}

NextPending ==
    \/ \E u \in MealSenders, text \in Texts, m \in NormalPortion, up \in BOOLEAN :
           HandleText(u, text, m, up)
    \/ \E u \in Adjusters, k \in AdjustKeys, m \in PresetMultipliers :
           HandlePortionChange(u, k, m)
    \/ \E u \in Adjusters, k \in Keys : HandleCustomPortion(u, k)
    \/ \E u \in Adjusters, k \in AdjustKeys, n \in Nudges :
           HandleNutritionAdjust(u, k, n[1], n[2])
    \/ \E u \in MealSenders, k \in Keys : HandleCancelMeal(u, k)
    \/ \E u \in MealSenders, k \in Keys : HandleConfirmMeal(u, k, TRUE, TRUE)

SpecPending == Init /\ [][NextPending]_vars

\* The ledger: meals entered, committed, edited and deleted across midnight.
NextLedger ==
    \/ Tick
    \/ \E u \in MealSenders, text \in FoodTexts, m \in AnalysisMultipliers :
           HandleText(u, text, m, TRUE)
    \/ \E u \in MealSenders, k \in Keys, ok \in BOOLEAN :
           HandleConfirmMeal(u, k, ok, TRUE)
    \/ \E u \in MealSenders, id \in MealIds : HandleDeleteConfirm(u, id)
    \/ \E u \in MealSenders, id \in MealIds, kind \in EditKinds : UpdateMeal(u, id, kind)
    \/ \E u \in MealSenders : SummaryCommand(u)

SpecLedger == Init /\ [][NextLedger]_vars

\* Revocation next to stored data: the unlisted sender is approved through
\* approve_user_, uses /start and is revoked while a listed sender enters
\* meals of a normal portion and commits them.
RetentionTexts == {"rice"}
RetentionApprovals == {"approve_user"}

NextRetention ==
    \/ Tick
    \/ \E u \in AccessSenders : RequestAccessCommand(u)
    \/ \E u \in AccessSenders : StartCommand(u)
    \/ \E a, t \in AccessSenders, op \in RetentionApprovals : HandleApproveUser(op, a, t)
    \/ \E a, t \in AccessSenders : HandleRevokeUser(a, t)
    \/ \E u \in AccessSenders, text \in RetentionTexts, m \in NormalPortion :
           HandleText(u, text, m, TRUE)
    \/ \E u \in AccessSenders, k \in Keys : HandleConfirmMeal(u, k, TRUE, TRUE)

SpecRetention == Init /\ [][NextRetention]_vars

\* Portion adjustment of one meal: the first listed sender enters the rice
\* meal, presses portion callbacks carrying any of the multipliers, types
\* replies to the custom prompt, cancels and confirms, across midnight, with
\* the nutrition API up and the store accepting or refusing the meal.
PortionTexts == {"rice", "0.5", "2", "15", "abc"}
PortionChoices == {50, 200, 1500}

NextPortion ==
    \/ Tick
    \/ \E u \in Adjusters, text \in PortionTexts, m \in NormalPortion :
           HandleText(u, text, m, TRUE)
    \/ \E u \in Adjusters, k \in AdjustKeys, m \in PortionChoices :
           HandlePortionChange(u, k, m)
    \/ \E u \in Adjusters, k \in AdjustKeys : HandleCustomPortion(u, k)
    \/ \E u \in Adjusters, k \in AdjustKeys : HandleCancelMeal(u, k)
    \/ \E u \in Adjusters, k \in AdjustKeys, ok \in BOOLEAN, sent \in BOOLEAN :
           HandleConfirmMeal(u, k, ok, sent)

SpecPortion == Init /\ [][NextPortion]_vars

\* Two workers each saving one meal of the same user on the one store, the
\* three store calls of each save_meal interleaving freely, across midnight.
NextRace ==
    \/ Tick
    \/ \E w \in Workers, text \in FoodTexts, m \in RaceMultipliers :
           SaveMealAdd(w, text, m)
    \/ \E w \in Workers : UpdateSummaryGet(w)
    \/ \E w \in Workers : UpdateSummaryWrite(w)

SpecRace == Init /\ [][NextRace]_vars

\* The menus of a pending meal: senders enter meals, cancel them and press
\* the menu buttons, across midnight.
NextMenu ==
    \/ Tick
    \/ \E u \in MealSenders, text \in FoodTexts, m \in NormalPortion :
           HandleText(u, text, m, TRUE)
    \/ \E u \in MealSenders, k \in Keys : HandleCancelMeal(u, k)
    \/ \E u \in MealSenders, data \in MenuPayloads : HandleMenuCallback(u, data)

SpecMenu == Init /\ [][NextMenu]_vars

Next ==
    NextAccess \/ NextPending \/ NextLedger \/ NextRetention \/ NextPortion
        \/ NextRace \/ NextMenu

Spec == Init /\ [][Next]_vars

\* ------------------------------------------------------- access claims

\* The operations behind the gate: the four commands and every callback
\* other than request_access and request_reinstate.
GatedOps ==
    {"start"} \cup ReadCommands \cup ApproveCallbacks \cup DenyCallbacks
        \cup {"approve_request", "revoke_user"}

RequestOps == {"request_access_command", "request_access"}

\* C2: every gated operation is allowed iff the sender's stored access
\* request has status approved when the gate is evaluated.
C2_GateFollowsStoredStatus ==
    [][\A u \in Users :
          (last'.actor = u /\ last'.op \in GatedOps)
              => (last'.allowed <=> IsAuthorized(u))]_vars

C10_ReinstateOnlyFromRevoked ==
    [][\A u \in Users :
          (last'.actor = u /\ last'.op = "request_reinstate")
              => IF Status(u) = "revoked"
                 THEN /\ last'.reply = "reinstate_submitted"
                      /\ access_requests'[u] =
                             [access_requests[u] EXCEPT !.status = "reinstate_request",
                                                        !.reinstate_requested_at = today]
                 ELSE /\ last'.reply = "no_revoked_record"
                      /\ access_requests'[u] = access_requests[u]]_vars

\* A reinstatement request has just been accepted and stamped.
C10_Witness ==
    /\ last.op = "request_reinstate"
    /\ last.reply = "reinstate_submitted"
    /\ Status(last.actor) = "reinstate_request"
    /\ access_requests[last.actor].reinstate_requested_at = today

\* The callbacks that approve: the three over approve_user_access and
\* approve_request_.
ApproveOps == ApproveCallbacks \cup {"approve_request"}

\* C11: a record becomes approved only from pending or reinstate_request, and
\* an approval sent for a record that is approved, denied or revoked leaves
\* the record as it was.
C11_ApprovedOnlyFromPendingOrReinstate ==
    [][\A t \in Users :
          /\ (Status(t)' = "approved" /\ Status(t) # "approved")
                 => Status(t) \in {"pending", "reinstate_request"}
          /\ (/\ last'.op \in ApproveOps
              /\ last'.target = t
              /\ Status(t) \in {"approved", "denied", "revoked"})
                 => access_requests'[t] = access_requests[t]]_vars

\* C12: a record becomes denied only from pending or reinstate_request, with
\* denied_at stamped, and a denial sent for a record that is approved, revoked
\* or denied leaves the status as it was.
C12_DeniedOnlyFromPendingOrReinstate ==
    [][\A t \in Users :
          /\ (Status(t)' = "denied" /\ Status(t) # "denied")
                 => (/\ Status(t) \in {"pending", "reinstate_request"}
                     /\ access_requests'[t].denied_at = today)
          /\ (/\ last'.op \in DenyCallbacks
              /\ last'.target = t
              /\ Status(t) \in {"approved", "revoked", "denied"})
                 => Status(t)' = Status(t)]_vars

\* C13: a record becomes revoked only from approved, with revoked_by and
\* revoked_at stamped, and a revocation sent for a record that is pending,
\* denied, revoked or reinstate_request leaves the status as it was.
C13_RevokedOnlyFromApproved ==
    [][\A t \in Users :
          /\ (Status(t)' = "revoked" /\ Status(t) # "revoked")
                 => (/\ Status(t) = "approved"
                     /\ access_requests'[t].revoked_by = last'.actor
                     /\ access_requests'[t].revoked_at = today)
          /\ (/\ last'.op = "revoke_user"
              /\ last'.target = t
              /\ Status(t) \in {"pending", "denied", "revoked", "reinstate_request"})
                 => Status(t)' = Status(t)]_vars

C15_ApprovalUpsertsProfile ==
    [][\A t \in Users :
          (/\ last'.op \in ApproveOps
           /\ last'.target = t
           /\ Status(t)' = "approved"
           /\ Status(t) # "approved")
              => /\ users'[t].exists
                 /\ users'[t].created_at
                        = IF users[t].exists THEN users[t].created_at ELSE today]_vars

\* C16: a revocation changes nothing but the access request: every profile,
\* meal and summary is afterwards as it was before.
C16_RevokeKeepsUserData ==
    [][last'.op = "revoke_user"
           => /\ users' = users
              /\ meals' = meals
              /\ summaries' = summaries]_vars

\* A user holding a profile has just been revoked while meals and a summary
\* are stored.
C16_Witness ==
    /\ last.op = "revoke_user"
    /\ last.reply = "revoked"
    /\ Status(last.target) = "revoked"
    /\ users[last.target].exists
    /\ \E u \in Users, id \in MealIds : meals[u][id].exists
    /\ \E u \in Users, d \in Days : summaries[u][d].exists

\* The administrative operations: the approving, denying and revoking
\* callbacks and the listing commands.
AdminOps == ApproveOps \cup DenyCallbacks \cup {"revoke_user"} \cup AdminCommands

\* C17: an administrative operation is carried out iff its sender is on the
\* admin allow-list, whatever the sender's own access request says, and one
\* sent by anybody else changes no access request and no profile.
C17_AdminOpsOnlyForAdmins ==
    [][\A a \in Users :
          (last'.actor = a /\ last'.op \in AdminOps)
              => /\ last'.allowed <=> IsAdmin(a)
                 /\ ~IsAdmin(a) => (/\ access_requests' = access_requests
                                    /\ users' = users)]_vars

\* An approving, denying or revoking callback has just been refused to a
\* sender whose own access request is approved.
C17_Witness ==
    /\ last.op \in AdminOps \ AdminCommands
    /\ ~last.allowed
    /\ ~IsAdmin(last.actor)
    /\ Status(last.actor) = "approved"
    /\ Status(last.target) = "approved"

\* ------------------------------------------------------ pending-meal claims

\* The raw totals of a pending meal scaled by a multiplier.
RawScaled(meal, m) == [f \in NutrientKeys |-> Scale(meal.raw_nutrition[f], m)]

\* The update handled last changed this sender's pending meal through op.
Changed(answer, op, u, k) ==
    /\ answer.op = op
    /\ answer.reply = "updated"
    /\ answer.actor = u
    /\ answer.target = k

\* C3: a preset portion change by m leaves the nutrition of a meal that was
\* never nudged at its raw totals scaled by m, and one that repeats the change
\* before it leaves the nutrition as it was.
C3_PortionChangeDoesNotCompound ==
    [][\A u \in Users, k \in Keys :
          Changed(last', "portion_change", u, k)
              => /\ ~pending_meals[u][k].nudged
                        => Nutrients(pending_meals'[u][k].nutrition)
                               = RawScaled(pending_meals'[u][k], last'.num)
                 /\ (Changed(last, "portion_change", u, k) /\ last.num = last'.num)
                        => pending_meals'[u][k].nutrition
                               = pending_meals[u][k].nutrition]_vars

\* C4: after a preset or custom portion change by m on a meal that was never
\* nudged, portion_multiplier is m and the nutrition is the raw totals scaled
\* by portion_multiplier.
C4_NutritionIsRawScaled ==
    [][\A u \in Users, k \in Keys :
          (/\ \/ Changed(last', "portion_change", u, k)
              \/ Changed(last', "custom_portion_input", u, k)
           /\ ~pending_meals[u][k].nudged)
              => /\ pending_meals'[u][k].portion_multiplier = last'.num
                 /\ Nutrients(pending_meals'[u][k].nutrition)
                        = RawScaled(pending_meals'[u][k],
                                    pending_meals'[u][k].portion_multiplier)]_vars

\* C5: a nudge sets the nudged nutrient to max(0, old + delta) and leaves no
\* nutrient of the pending meal negative.
C5_NudgeNeverNegative ==
    [][\A u \in Users, k \in Keys :
          Changed(last', "nutrition_adjust", u, k)
              => /\ pending_meals'[u][k].nutrition[last'.field]
                        = Max0(pending_meals[u][k].nutrition[last'.field]
                                   + last'.num * Unit)
                 /\ \A f \in NutrientKeys : pending_meals'[u][k].nutrition[f] >= 0]_vars

\* A nudge has just taken a nutrient below zero and left it at zero.
C5_Witness ==
    /\ last.op = "nutrition_adjust"
    /\ last.reply = "updated"
    /\ last.old + last.num * Unit < 0
    /\ pending_meals[last.actor][last.target].exists
    /\ pending_meals[last.actor][last.target].nutrition[last.field] = 0

\* ------------------------------------------------------------ ledger claims

\* The stored meals of a user whose timestamp falls on a date.
MealsOn(u, d) == {id \in MealIds : meals[u][id].exists /\ meals[u][id].timestamp = d}

RECURSIVE SumOfMeals(_, _, _)
SumOfMeals(u, ids, f) ==
    IF ids = {} THEN 0
    ELSE LET id == CHOOSE i \in ids : TRUE
         IN  meals[u][id].nutrition[f] + SumOfMeals(u, ids \ {id}, f)

\* A summary as its readers see it: an absent one counts as all zero.
SummaryView(summary) ==
    IF summary.exists
    THEN [totals |-> summary.totals, meal_count |-> summary.meal_count]
    ELSE [totals |-> [f \in NutrientKeys |-> 0], meal_count |-> 0]

\* C1: the summary of every user and date is the field-wise sum of the user's
\* stored meals of that date, and meal_count is their number.
C1_SummaryIsSumOfMeals ==
    \A u \in Users, d \in Days :
        SummaryView(summaries[u][d])
            = [totals |-> [f \in NutrientKeys |-> SumOfMeals(u, MealsOn(u, d), f)],
               meal_count |-> Cardinality(MealsOn(u, d))]

\* C6: deleting a meal right after its commit leaves the summary of the day
\* of the commit as it was read before the commit.
C6_CommitThenDeleteRestores ==
    [][\A u \in Users :
          (/\ last.op = "confirm" /\ last.reply = "saved" /\ last.actor = u
           /\ last'.op = "delete_confirm" /\ last'.reply = "deleted"
           /\ last'.actor = u /\ last'.num = last.num)
              => SummaryView(summaries'[u][today]) = SummaryView(last.snap[today])]_vars

\* C7: an edit that adds 10 to a stored meal's protein adds 10 to total_protein
\* of the summary of the meal's date and changes no other total nor meal_count.
C7_EditProteinAddsTen ==
    [][\A u \in Users, id \in MealIds :
          (/\ last'.op = "update_meal" /\ last'.reply = "updated"
           /\ last'.field = "protein" /\ last'.actor = u /\ last'.num = id)
              => SummaryView(summaries'[u][meals[u][id].timestamp])
                     = [SummaryView(summaries[u][meals[u][id].timestamp])
                            EXCEPT !.totals.protein = @ + 10 * Unit]]_vars

\* C18: when the store refuses the meal document of a commit, the commit
\* answers failure with no meal id, and no meal and no summary changes.
C18_FailedCommitLeavesSummaries ==
    [][\A u \in Users :
          (last'.actor = u /\ last'.op = "confirm" /\ last'.reply = "save_failed")
              => /\ last'.num = 0
                 /\ summaries' = summaries
                 /\ meals' = meals]_vars

\* A commit has just failed for a sender who holds the pending meal and a
\* summary of today.
C18_Witness ==
    /\ last.op = "confirm"
    /\ last.reply = "save_failed"
    /\ pending_meals[last.actor][last.target].exists
    /\ summaries[last.actor][today].exists

\* C19: a commit folds the meal into the summary of the date the pending meal
\* was created on, adding every nutrient and one to meal_count, or creating
\* the summary from the meal when there is none, and touches no other date.
C19_CommitKeyedOnMealDate ==
    [][\A u \in Users, k \in Keys :
          (/\ last'.op = "confirm" /\ last'.reply = "saved"
           /\ last'.actor = u /\ last'.target = k)
              => \A d \in Days :
                     IF d = pending_meals[u][k].timestamp
                     THEN /\ summaries'[u][d].exists
                          /\ SummaryView(summaries'[u][d])
                                 = [totals |-> [f \in NutrientKeys |->
                                        SummaryView(summaries[u][d]).totals[f]
                                            + pending_meals[u][k].nutrition[f]],
                                    meal_count |->
                                        SummaryView(summaries[u][d]).meal_count + 1]
                     ELSE summaries'[u][d] = summaries[u][d]]_vars

\* C20: deleting a meal id the sender does not hold answers not found and
\* changes no meal and no summary; deleting a stored meal removes it and
\* takes its nutrition and one meal off the summary of the meal's date, no
\* total nor meal_count going below zero, and touches nothing else.
C20_DeleteSubtractsFloored ==
    [][\A u \in Users, id \in MealIds :
          (/\ last'.op = "delete_confirm" /\ last'.allowed
           /\ last'.actor = u /\ last'.num = id)
              => IF ~meals[u][id].exists
                 THEN /\ last'.reply = "meal_not_found"
                      /\ meals' = meals
                      /\ summaries' = summaries
                 ELSE /\ last'.reply = "deleted"
                      /\ meals' = [meals EXCEPT ![u][id] = NoDoc]
                      /\ \A v \in Users \ {u} : summaries'[v] = summaries[v]
                      /\ \A d \in Days :
                             IF d = meals[u][id].timestamp
                             THEN SummaryView(summaries'[u][d])
                                      = [totals |-> [f \in NutrientKeys |->
                                             Max0(SummaryView(summaries[u][d]).totals[f]
                                                      - meals[u][id].nutrition[f])],
                                         meal_count |->
                                             Max0(SummaryView(summaries[u][d]).meal_count - 1)]
                             ELSE summaries'[u][d] = summaries[u][d]]_vars

\* A delete has just taken a meal off a summary that held fewer calories than
\* the meal, leaving the total at zero.
C20_Witness ==
    /\ last.op = "delete_confirm"
    /\ last.reply = "deleted"
    /\ \E d \in Days :
           /\ last.snap[d].exists
           /\ summaries[last.actor][d] # last.snap[d]
           /\ last.snap[d].totals.calories > 0
           /\ last.snap[d].totals.calories < last.old
           /\ summaries[last.actor][d].totals.calories = 0

\* ------------------------------------------------- portion-adjustment claims

\* The portion adjustments: the preset callback and the reply to the custom
\* prompt.
PortionOps == {"portion_change", "custom_portion_input"}

\* C21: a portion adjustment of a pending meal whose multiplier lies outside
\* the accepted range, through the preset callback or the custom reply, is
\* answered with the invalid-range error and leaves the pending meal as it was.
C21_OutOfRangeRejected ==
    [][\A u \in Users, k \in Keys :
          (/\ last'.op \in PortionOps /\ last'.allowed
           /\ last'.actor = u /\ last'.target = k
           /\ HasPending(u, k)
           /\ last'.num > 0 /\ ~CustomRange(last'.num))
              => /\ last'.reply = "invalid_range"
                 /\ pending_meals'[u][k] = pending_meals[u][k]]_vars

\* The suffix the description of a meal adjusted by m ends in: the exact
\* multipliers first, then the ranges.
BandSuffix(m) ==
    CASE m = 100 -> "Normal portion)"
      [] m = 50 -> "Half portion)"
      [] m = 75 -> "3/4 portion)"
      [] m = 125 -> "Large portion)"
      [] m = 150 -> "1.5x portion)"
      [] m = 200 -> "Double portion)"
      [] m < 50 -> FloatText(m) \o "x small portion)"
      [] m > 200 -> FloatText(m) \o "x large portion)"
      [] OTHER -> FloatText(m) \o "x portion)"

\* C22: after a portion adjustment by an accepted multiplier m, preset or
\* custom, the description of the pending meal ends with the band suffix of m.
C22_DescriptionEndsWithBand ==
    [][\A u \in Users, k \in Keys :
          (/\ last'.op \in PortionOps /\ last'.reply = "updated"
           /\ last'.actor = u /\ last'.target = k
           /\ CustomRange(last'.num))
              => LET description == pending_meals'[u][k].food_description
                 IN  description[Len(description)] = BandSuffix(last'.num)]_vars

\* C23: a meal text whose key is that of a pending meal still in the sender's
\* store does not silently replace it: the older pending meal stays as it
\* was, or the reply reports the collision.
C23_CollisionNotSilent ==
    [][\A u \in Users, k \in Keys :
          (/\ last'.op = "text" /\ last'.allowed
           /\ last'.actor = u /\ last'.target = k
           /\ HasPending(u, k))
              => \/ pending_meals'[u][k] = pending_meals[u][k]
                 \/ last'.reply = "collision"]_vars

\* The calories of the rice meal at multiplier 1.0, and twice that.
Calories450 == 450 * Unit
Calories900 == 900 * Unit

\* C24: a text meal looked up at 450 calories and multiplier 1.0 becomes a
\* pending meal of 450 calories; a portion adjustment by 2.0 makes that 900;
\* its commit, for a sender with no summary of today, yields a summary of
\* today with meal_count 1 and total_calories 900.
C24_HappyPath ==
    [][\A u \in Users, k \in Keys :
          (last'.actor = u /\ last'.target = k)
              => /\ (/\ last'.op = "text" /\ last'.reply = "pending_created"
                     /\ last'.num = 100
                     /\ pending_meals'[u][k].raw_nutrition.calories = Calories450)
                        => pending_meals'[u][k].nutrition.calories = Calories450
                 /\ (/\ last'.op \in PortionOps /\ last'.reply = "updated"
                     /\ last'.num = 200
                     /\ pending_meals[u][k].food_description = <<"rice">>
                     /\ pending_meals[u][k].nutrition.calories = Calories450)
                        => pending_meals'[u][k].nutrition.calories = Calories900
                 /\ (/\ last'.op = "confirm" /\ last'.reply = "saved"
                     /\ pending_meals[u][k].nutrition.calories = Calories900
                     /\ ~summaries[u][today].exists)
                        => /\ summaries'[u][today].exists
                           /\ summaries'[u][today].meal_count = 1
                           /\ summaries'[u][today].totals.calories = Calories900]_vars

\* The doubled rice meal has just been committed as the sender's only meal of
\* today.
C24_Witness ==
    /\ last.op = "confirm"
    /\ last.reply = "saved"
    /\ ~last.snap[today].exists
    /\ meals[last.actor][last.num].food_description = <<"rice", "Double portion)">>
    /\ meals[last.actor][last.num].nutrition.calories = Calories900
    /\ summaries[last.actor][today].meal_count = 1
    /\ summaries[last.actor][today].totals.calories = Calories900

\* The request handled last was a portion adjustment that must fail: a
\* multiplier outside the accepted range, or a reply that is no number.
FailedAdjustment(answer) ==
    /\ answer.op \in PortionOps
    /\ answer.allowed
    /\ \/ answer.reply = "invalid_input"
       \/ answer.num > 0 /\ ~CustomRange(answer.num)

\* C25: a pending meal leaves the sender's pending store only through a
\* commit that saved it or a cancel; a failed adjustment and a commit whose
\* meal write failed leave the pending meal in the store as it was.
C25_OnlyConfirmOrCancelConsume ==
    [][\A u \in Users, k \in Keys :
          HasPending(u, k)
              => /\ ~pending_meals'[u][k].exists
                        => /\ last'.actor = u /\ last'.target = k
                           /\ \/ last'.op = "cancel"
                              \/ last'.op = "confirm" /\ last'.reply = "saved"
                 /\ (/\ last'.actor = u /\ last'.target = k
                     /\ \/ FailedAdjustment(last')
                        \/ last'.op = "confirm" /\ last'.reply = "save_failed")
                        => pending_meals'[u][k] = pending_meals[u][k]]_vars

\* C26: a cancel leaves the key absent from the sender's pending store,
\* whether or not it was there, and changes no meal, no summary and no other
\* stored record of any user.
C26_CancelRemovesAndWritesNothing ==
    [][\A u \in Users, k \in Keys :
          (/\ last'.op = "cancel" /\ last'.allowed
           /\ last'.actor = u /\ last'.target = k)
              => /\ ~pending_meals'[u][k].exists
                 /\ meals' = meals
                 /\ summaries' = summaries
                 /\ issued' = issued
                 /\ users' = users
                 /\ access_requests' = access_requests]_vars

\* A sender who holds a committed meal and a summary has just cancelled a
\* key that another sender still holds a pending meal under.
C26_Witness ==
    /\ last.op = "cancel"
    /\ last.reply = "cancelled"
    /\ ~pending_meals[last.actor][last.target].exists
    /\ meals[last.actor][1].exists
    /\ summaries[last.actor][today].exists
    /\ \E v \in Users \ {last.actor} : pending_meals[v][last.target].exists

\* The callbacks that address a pending meal by its key.
PendingMealOps == {"confirm", "portion_change", "nutrition_adjust"}

\* C28: a request of one sender leaves every other sender's pending store as
\* it was; a confirm, portion change or nudge on a key the sender holds no
\* pending meal under answers not found whoever else holds one; and a commit
\* stores the meal under the sender who created the pending meal and changes
\* no other user's meals or summaries.
C28_PendingMealsOwnedBySession ==
    [][\A u \in Users, k \in Keys :
          (last'.actor = u /\ last'.target = k)
              => /\ \A v \in Users \ {u} : pending_meals'[v] = pending_meals[v]
                 /\ (last'.op \in PendingMealOps /\ last'.allowed /\ ~HasPending(u, k))
                        => /\ last'.reply = "meal_not_found"
                           /\ storeVars' = storeVars
                 /\ (last'.op = "confirm" /\ last'.reply = "saved")
                        => /\ pending_meals[u][k].user_id = u
                           /\ meals'[u][last'.num] = MealDoc(pending_meals[u][k])
                           /\ \A v \in Users \ {u} :
                                  /\ meals'[v] = meals[v]
                                  /\ summaries'[v] = summaries[v]]_vars

\* A sender has just committed a meal under a key that another sender still
\* holds a pending meal under.
C28_Witness ==
    /\ last.op = "confirm"
    /\ last.reply = "saved"
    /\ last.actor # "a1"
    /\ meals[last.actor][last.num].user_id = last.actor
    /\ \E v \in Users \ {last.actor} :
           /\ pending_meals[v][last.target].exists
           /\ pending_meals[v][last.target].user_id = v

\* C27: a confirm of a key the sender holds no pending meal under answers not
\* found and writes nothing, and a confirm that stored the meal leaves the key
\* absent, so that the same pending meal cannot be committed again.
C27_CommittedAtMostOnce ==
    [][\A u \in Users, k \in Keys :
          (/\ last'.op = "confirm" /\ last'.allowed
           /\ last'.actor = u /\ last'.target = k)
              => /\ ~HasPending(u, k)
                        => /\ last'.reply = "meal_not_found"
                           /\ storeVars' = storeVars
                 /\ meals' # meals => ~pending_meals'[u][k].exists]_vars

\* What the nutrition gateway answers, up or down, for the meal's base
\* description at a multiplier.
Requeried(meal, m) ==
    {Nutrients(GetNutritionData(BaseDescription(meal.food_description), m, up).nutrition) :
         up \in BOOLEAN}

\* C30: a portion change, preset or custom, of a pending meal that was nudged
\* before leaves the nutrition the gateway answers for the multiplier, not the
\* nudged totals rescaled.
C30_NudgedMealIsRequeried ==
    [][\A u \in Users, k \in Keys :
          (/\ last'.op \in PortionOps /\ last'.reply = "updated"
           /\ last'.actor = u /\ last'.target = k
           /\ HasPending(u, k) /\ pending_meals[u][k].nudged)
              => Nutrients(pending_meals'[u][k].nutrition)
                     \in Requeried(pending_meals[u][k], last'.num)]_vars

\* C29: is_authorized answers true exactly when the store answers the read
\* and the user's stored record exists with status approved; it answers false
\* for no record, for every other status and when the read fails.
C29_IsAuthorizedIsStoredApproval ==
    [][\A u \in Users :
          (last'.op = "reload_access" /\ last'.actor = u)
              => (last'.allowed
                      <=> /\ last'.num = 1
                          /\ access_requests[u].exists
                          /\ access_requests[u].status = "approved")]_vars

\* A user outside the environment allow-list whose stored status is approved
\* has just been found authorized.
C29_Witness ==
    /\ last.op = "reload_access"
    /\ last.allowed
    /\ last.actor \notin EnvIds
    /\ Status(last.actor) = "approved"

\* ------------------------------------------------- degraded-lookup claims

\* C31: a pending meal whose nutrition carries the error marker of a failed
\* lookup is not committed by a confirm as an ordinary measured meal: the
\* confirm does not answer with the plain saved reply.
C31_DegradedNotCommittedAsMeasured ==
    [][\A u \in Users, k \in Keys :
          (/\ last'.op = "confirm" /\ last'.allowed
           /\ last'.actor = u /\ last'.target = k
           /\ HasPending(u, k) /\ pending_meals[u][k].nutrition.error)
              => last'.reply # "saved"]_vars

\* ------------------------------------------------------ concurrency claims

\* Both workers have finished a commit for the same date whose summary
\* snapshots were the same: each read the summary before the other wrote.
BothReadPreUpdate ==
    /\ \A w \in Workers : inflight[w].pc = "done"
    /\ inflight["w1"].date = inflight["w2"].date
    /\ inflight["w1"].read = inflight["w2"].read

\* C32: when two commits for the same user and date both read the summary
\* before either wrote, both meals are stored and the summary is the
\* snapshot plus one of the two meals only: meal_count is one more than
\* before and the totals hold the nutrition of one meal.
C32_RacingCommitsLoseOne ==
    BothReadPreUpdate
        => LET d == inflight["w1"].date
               before == SummaryView(inflight["w1"].read)
               after == SummaryView(summaries[RaceUser][d])
           IN  /\ \A w \in Workers : meals[RaceUser][inflight[w].id].exists
               /\ inflight["w1"].id # inflight["w2"].id
               /\ after.meal_count = before.meal_count + 1
               /\ \E w \in Workers :
                      after.totals =
                          [f \in NutrientKeys |->
                               before.totals[f]
                                   + meals[RaceUser][inflight[w].id].nutrition[f]]

\* Two meals with calories are stored and both commits are finished, and the
\* summary of their date counts one meal.
C32_Witness ==
    /\ BothReadPreUpdate
    /\ \A w \in Workers : meals[RaceUser][inflight[w].id].nutrition.calories > 0
    /\ summaries[RaceUser][inflight["w1"].date].meal_count = 1

\* ------------------------------------------------------ summary-view claims

\* C33: /summary answers that no meals are logged for today when the summary
\* document of today is absent and also when it exists with meal_count 0.
C33_ZeroCountReadsAsAbsent ==
    [][\A u \in Users :
          (last'.op = "summary_command" /\ last'.allowed /\ last'.actor = u)
              => (SummaryView(summaries[u][today]).meal_count = 0
                      => last'.reply = "no_meals")]_vars

\* ------------------------------------------------- missing-record claims

\* C34: an approve or a deny by an admin for a user with no access request
\* record answers with an error and creates nothing: the user still has no
\* record, and the user's profile is as it was.
C34_ApproveDenyMissingRecord ==
    [][\A t \in Users :
          (/\ last'.op \in ApproveOps \cup DenyCallbacks
           /\ last'.allowed /\ last'.target = t
           /\ ~access_requests[t].exists)
              => /\ last'.reply \in {"failed", "error"}
                 /\ ~access_requests'[t].exists
                 /\ users'[t] = users[t]]_vars

\* An approve_request_ callback for a user with no record has just been
\* refused, and that user has no profile either.
C34_Witness ==
    /\ last.op = "approve_request"
    /\ last.reply = "error"
    /\ ~access_requests[last.target].exists
    /\ ~users[last.target].exists

\* ---------------------------------------------------- description claims

\* A description without its last parenthesized segment: everything before
\* the last " (".
BeforeLastParen(description) ==
    IF Len(description) > 1 /\ description[Len(description)] \in ClosingSegments
    THEN SubSeq(description, 1, Len(description) - 1)
    ELSE description

\* C35: a custom portion change rebuilds the description from the base that
\* is everything before the last " (" of the description it found, earlier
\* parenthesized text being kept, followed by the new suffix.
C35_BaseIsBeforeLastParen ==
    [][\A u \in Users, k \in Keys :
          Changed(last', "custom_portion_input", u, k)
              => pending_meals'[u][k].food_description
                     = Append(BeforeLastParen(pending_meals[u][k].food_description),
                              CustomPortionText(last'.num))]_vars

\* ------------------------------------------------------- dispatch claims

\* The handler written for a menu callback, by the words of its data before
\* the meal key.
OwnHandler(first, second, words) ==
    CASE first = "adjust" -> "_handle_adjust_portions"
      [] first = "edit" /\ words = 2 -> "_handle_edit_items"
      [] first = "edit" /\ second = "desc" -> "_handle_edit_description"
      [] first = "edit" /\ second = "cal" -> "_handle_edit_calories"
      [] first = "edit" /\ second = "prot" -> "_handle_edit_protein"
      [] first = "edit" /\ second = "carbs" -> "_handle_edit_carbs"
      [] first = "edit" /\ second = "fat" -> "_handle_edit_fat"
      [] first = "cancel" /\ second = "delete" -> "_handle_cancel_delete"
      [] first = "back" /\ second = "to" -> "_handle_back_to_history"
      [] first = "back" -> "_handle_back_to_confirmation"
      [] OTHER -> "none"

\* C36: a menu callback that passes the gate reaches the handler of its own
\* action: the five field edits their field handlers, cancel_delete the
\* cancel-delete handler, back_to_history the history handler.
C36_DispatchReachesOwnHandler ==
    [][(last'.target \in {"adjust", "edit", "cancel", "back"} /\ last'.allowed)
           => last'.op = OwnHandler(last'.target, last'.field, last'.num)]_vars

\* --------------------------------------------------- summary-sign claims

\* C37: every nutrient total and the meal_count of every stored summary are
\* non-negative after any commits, deletes and edits.
C37_SummariesNonNegative ==
    \A u \in Users, d \in Days :
        summaries[u][d].exists
            => /\ summaries[u][d].meal_count >= 0
               /\ \A f \in NutrientKeys : summaries[u][d].totals[f] >= 0

\* C38: an edit of a stored meal that carries no nutrition leaves the totals
\* and the meal_count of the summary of the meal's date as they were.
C38_EditWithoutNutritionKeepsSummary ==
    [][\A u \in Users, id \in MealIds :
          (/\ last'.op = "update_meal" /\ last'.reply = "updated"
           /\ last'.actor = u /\ last'.num = id
           /\ last'.field = "description")
              => SummaryView(summaries'[u][meals[u][id].timestamp])
                     = SummaryView(summaries[u][meals[u][id].timestamp])]_vars

\* ------------------------------------------------- portion-suffix claims

\* The suffix an adjustment by m writes: that of the preset buttons or that
\* of the custom reply.
AdjustmentSuffix(op, m) ==
    IF op = "portion_change" THEN PortionText(m) ELSE CustomPortionText(m)

\* C39: after every portion adjustment, preset or custom, the description of
\* the pending meal is the description its analysis gave followed by one
\* suffix, that of the adjustment just made.
C39_OneSuffixOfLatestAdjustment ==
    [][\A u \in Users, k \in Keys, op \in PortionOps :
          Changed(last', op, u, k)
              => pending_meals'[u][k].food_description
                     = Append(Describe(pending_meals'[u][k].input_value),
                              AdjustmentSuffix(op, last'.num))]_vars

\* ------------------------------------------------- custom-prompt claims

\* The custom-portion prompt of user u is over: the meal it names has just
\* been cancelled or confirmed by u, or u has just answered the prompt with
\* a text that is no number or a number out of range.
PromptOver(u) ==
    /\ custom_portion_meal_id[u] # None
    /\ last.actor = u
    /\ \/ /\ last.op \in {"cancel", "confirm"}
          /\ last.target = custom_portion_meal_id[u]
          /\ ~HasPending(u, custom_portion_meal_id[u])
       \/ /\ last.op = "custom_portion_input"
          /\ last.reply \in {"invalid_input", "invalid_range"}

\* C40: once the custom-portion prompt of a user is over, the next text of
\* the user that is no number is analysed as a meal description and is not
\* taken as an answer to the prompt.
C40_PromptDoesNotOutliveMeal ==
    [][\A u \in Users :
          (PromptOver(u) /\ last'.actor = u)
              => ~(last'.op = "custom_portion_input"
                   /\ last'.reply = "invalid_input")]_vars

====
